---- MODULE Spec2Model ----
(***************************************************************************)
(* Goldwasser-Micali cryptosystem of src/main.py: the Jacobi symbol, the   *)
(* pseudo-square sampler, the prime generator (small-prime sieve and       *)
(* Miller-Rabin test) and the script that generates a key, encrypts a bit  *)
(* string and decrypts it again.                                           *)
(*                                                                         *)
(* Every random draw of the code (random.randint, random.randrange) is a   *)
(* nondeterministic choice over the whole range the call can return.       *)
(* A raised Python exception is recorded by its class name.                *)
(***************************************************************************)
EXTENDS Integers, Sequences, FiniteSets, TLC

VARIABLES
    \* the script (__main__) and its module-level variables
    pc, prime_len, p, q, n, z, binary_text, rand_a_Zn, encrypted_text,
    di, decrypted_text, err,
    \* the get_prime / test_MillerRabin call frame
    gp_pc, l, prime_candidate, trial, mr_result, ret,
    \* the frame of the direct calls of jacobi
    jpc, ja, jb, jp, res_a, res_b, res_ab

vars == <<pc, prime_len, p, q, n, z, binary_text, rand_a_Zn, encrypted_text,
          di, decrypted_text, err,
          gp_pc, l, prime_candidate, trial, mr_result, ret,
          jpc, ja, jb, jp, res_a, res_b, res_ab>>

main_vars == <<pc, prime_len, p, q, n, z, binary_text, rand_a_Zn,
               encrypted_text, di, decrypted_text, err>>

prime_vars == <<gp_pc, l, prime_candidate, trial, mr_result, ret>>

jacobi_vars == <<jpc, ja, jb, jp, res_a, res_b, res_ab>>

(***************************************************************************)
(* Bounds of the model.                                                    *)
(***************************************************************************)
\* bit length the script asks its primes to have (1024 in the code)
PrimeLen == 4
\* how many entries of first_primes_list the sieve holds
NumFirstPrimes == 1
\* length of the bit string the script encrypts
MaxBits == 1
\* largest modulus, and bound of the arguments, of the direct jacobi calls
MaxMod == 21
\* largest candidate handed directly to test_MillerRabin
MaxCandidate == 40
\* largest bit length handed directly to get_prime
MaxLen == 6
\* largest prime handed directly to generate_pseudo_square
MaxSamplerPrime == 13

(***************************************************************************)
(* Arithmetic of the Python built-ins the code uses.                       *)
(***************************************************************************)
RECURSIVE Pow(_, _)
\* b ** e for e >= 0
Pow(b, e) == IF e = 0 THEN 1 ELSE b * Pow(b, e - 1)

RECURSIVE pow_mod(_, _, _)
\* the three-argument pow(b, e, m) for e >= 0, m >= 1
pow_mod(b, e, m) ==
    IF e = 0 THEN 1 % m
    ELSE LET h == pow_mod(b, e \div 2, m)
         IN  IF e % 2 = 0 THEN (h * h) % m ELSE (((h * h) % m) * (b % m)) % m

RECURSIVE bin(_)
\* bin(x)[2:] for x >= 0: the binary digits of x, most significant first
bin(x) == IF x < 2 THEN <<x>> ELSE Append(bin(x \div 2), x % 2)

RECURSIVE int_base2(_)
\* int(s, 2) of a digit sequence
int_base2(s) ==
    IF s = <<>> THEN 0
    ELSE 2 * int_base2(SubSeq(s, 1, Len(s) - 1)) + s[Len(s)]

\* int(xi) of one character of the binary text
int_char(c) == IF c = "0" THEN 0 ELSE 1

(***************************************************************************)
(* jacobi(a, p), src/main.py lines 32-56.  The result is a record: exc is  *)
(* the exception the call raises ("" when it returns) and value is what it *)
(* returns.                                                                *)
(***************************************************************************)
Returned(v) == [exc |-> "", value |-> v]
Raised(e) == [exc |-> e, value |-> 0]

\* jacobi_assert without the parity test of the modulus
jacobi_assert_no_parity(a, m) == m > a /\ a > 0

\* line 38: assert p > a > 0 and p % 2 == 1 (a already reduced modulo p)
jacobi_assert(a, m) == m > a /\ a > 0 /\ m % 2 = 1

\* lines 43-46: the sign after one factor 2 is divided out of a
supplement_sign(m, t) == IF m % 8 = 3 \/ m % 8 = 5 THEN -t ELSE t

\* reciprocity_sign that never flips the sign
reciprocity_sign_no_flip(a, m, t) == t

\* lines 50-51: the sign after a and p are swapped
reciprocity_sign(a, m, t) == IF a % 4 = 3 /\ m % 4 = 3 THEN -t ELSE t

\* jacobi_return that returns the sign whatever the final p
jacobi_return_no_gcd(m, t) == t

\* lines 53-56: the returned symbol once a == 0
jacobi_return(m, t) == IF m = 1 THEN t ELSE 0

RECURSIVE halve(_, _, _)
\* lines 41-46: while a % 2 == 0 (a # 0); yields <<a, t>>
halve(a, m, t) ==
    IF a % 2 = 0 THEN halve(a \div 2, m, supplement_sign(m, t)) ELSE <<a, t>>

RECURSIVE jacobi_loop(_, _, _)
\* lines 40-56: while a != 0, then the return
jacobi_loop(a, m, t) ==
    IF a = 0 THEN jacobi_return(m, t)
    ELSE LET h  == halve(a, m, t)
             a2 == m
             m2 == h[1]
             t2 == reciprocity_sign(a2, m2, h[2])
         IN  jacobi_loop(a2 % m2, m2, t2)

\* lines 32-56.  a %= p raises ZeroDivisionError for p = 0 and, for p < 0,
\* leaves a in (p, 0], which the assertion rejects.
jacobi(a, m) ==
    IF m = 0 THEN Raised("ZeroDivisionError")
    ELSE IF m < 0 THEN Raised("AssertionError")
    ELSE IF ~jacobi_assert(a % m, m) THEN Raised("AssertionError")
    ELSE Returned(jacobi_loop(a % m, m, 1))

(***************************************************************************)
(* Direct calls of jacobi: jacobi(a, p), jacobi(b, p) and                  *)
(* jacobi(a*b mod p, p) for drawn a, b, p.                                 *)
(***************************************************************************)
NotCalled == Raised("not called")

JacobiInputs ==
    /\ ja \in (0 - MaxMod) .. (2 * MaxMod)
    /\ jb \in 1 .. MaxMod
    /\ jp \in (0 - 3) .. MaxMod

JacobiCallA ==
    /\ jpc = "call_a"
    /\ res_a' = jacobi(ja, jp)
    /\ jpc' = "call_b"
    /\ UNCHANGED <<ja, jb, jp, res_b, res_ab>>
    /\ UNCHANGED main_vars
    /\ UNCHANGED prime_vars

JacobiCallB ==
    /\ jpc = "call_b"
    /\ res_b' = jacobi(jb, jp)
    /\ jpc' = "call_ab"
    /\ UNCHANGED <<ja, jb, jp, res_a, res_ab>>
    /\ UNCHANGED main_vars
    /\ UNCHANGED prime_vars

\* the caller reduces the product itself: jacobi(a * b % p, p)
JacobiCallProduct ==
    /\ jpc = "call_ab"
    /\ jp > 0
    /\ res_ab' = jacobi((ja * jb) % jp, jp)
    /\ jpc' = "done"
    /\ UNCHANGED <<ja, jb, jp, res_a, res_b>>
    /\ UNCHANGED main_vars
    /\ UNCHANGED prime_vars

(***************************************************************************)
(* get_lowlevel_prime(n), src/main.py lines 69-79.                         *)
(***************************************************************************)
\* the primes in increasing order, of which first_primes_list is a prefix
SmallPrimes == <<2, 3, 5, 7, 11, 13, 17, 19, 23, 29, 31, 37>>

\* constants.first_primes_list
first_primes_list == SubSeq(SmallPrimes, 1, NumFirstPrimes)

\* line 74: the values random.randrange(2 ** (n - 1) + 1, 2 ** n - 1) returns
lowlevel_range(nbits) == (Pow(2, nbits - 1) + 1) .. (Pow(2, nbits) - 2)

\* lines 75-77: some divisor of the list breaks the for loop
sieve_rejects(c) ==
    \E k \in 1 .. Len(first_primes_list) :
        c % first_primes_list[k] = 0 /\ first_primes_list[k] * first_primes_list[k] <= c

\* lines 73-79: the values get_lowlevel_prime(n) can return
get_lowlevel_prime(nbits) == {c \in lowlevel_range(nbits) : ~sieve_rejects(c)}

(***************************************************************************)
(* test_MillerRabin(candidate), src/main.py lines 82-114.                  *)
(***************************************************************************)
\* line 109
number_trials == 20

RECURSIVE decompose(_, _)
\* lines 87-94: candidate - 1 = 2 ** max_2_pow * ec; yields <<ec, max_2_pow>>
decompose(ec, max_2_pow) ==
    IF ec % 2 = 0 THEN decompose(ec \div 2, max_2_pow + 1) ELSE <<ec, max_2_pow>>

\* is_composite whose loop starts at i = 1 instead of i = 0
is_composite_from_one(round_tester, candidate) ==
    LET d == decompose(candidate - 1, 0)
        ec == d[1]
        max_2_pow == d[2]
    IN  IF pow_mod(round_tester, ec, candidate) = 1 THEN FALSE
        ELSE IF \E i \in 1 .. (max_2_pow - 1) :
                    pow_mod(round_tester, Pow(2, i) * ec, candidate) = candidate - 1
             THEN FALSE
             ELSE TRUE

\* lines 100-106
is_composite(round_tester, candidate) ==
    LET d == decompose(candidate - 1, 0)
        ec == d[1]
        max_2_pow == d[2]
    IN  IF pow_mod(round_tester, ec, candidate) = 1 THEN FALSE
        ELSE IF \E i \in 0 .. (max_2_pow - 1) :
                    pow_mod(round_tester, Pow(2, i) * ec, candidate) = candidate - 1
             THEN FALSE
             ELSE TRUE

\* lines 110-113: one trial of the for loop, with a drawn round_tester
MillerRabinTrial ==
    /\ gp_pc = "test"
    /\ mr_result = "none"
    /\ trial < number_trials
    /\ \E round_tester \in 2 .. (prime_candidate - 1) :
          IF is_composite(round_tester, prime_candidate)
          THEN mr_result' = "False" /\ trial' = trial
          ELSE mr_result' = mr_result /\ trial' = trial + 1
    /\ UNCHANGED <<gp_pc, l, prime_candidate, ret>>
    /\ UNCHANGED main_vars
    /\ UNCHANGED jacobi_vars

\* line 114: every trial passed
MillerRabinAccept ==
    /\ gp_pc = "test"
    /\ mr_result = "none"
    /\ trial = number_trials
    /\ mr_result' = "True"
    /\ UNCHANGED <<gp_pc, l, prime_candidate, trial, ret>>
    /\ UNCHANGED main_vars
    /\ UNCHANGED jacobi_vars

(***************************************************************************)
(* get_prime(l), src/main.py lines 117-124.  The body reads the module     *)
(* variable prime_len, not its parameter l.                                *)
(***************************************************************************)
\* lines 121 and 123: prime_candidate = get_lowlevel_prime(prime_len)
GetLowlevelPrime ==
    /\ gp_pc = "sieve"
    /\ \E c \in get_lowlevel_prime(prime_len) : prime_candidate' = c
    /\ trial' = 0
    /\ mr_result' = "none"
    /\ gp_pc' = "test"
    /\ UNCHANGED <<l, ret>>
    /\ UNCHANGED main_vars
    /\ UNCHANGED jacobi_vars

\* line 122: the test rejected the candidate, the while loop goes round
GetPrimeRetry ==
    /\ gp_pc = "test"
    /\ mr_result = "False"
    /\ gp_pc' = "sieve"
    /\ UNCHANGED <<l, prime_candidate, trial, mr_result, ret>>
    /\ UNCHANGED main_vars
    /\ UNCHANGED jacobi_vars

\* line 124
GetPrimeReturn ==
    /\ gp_pc = "test"
    /\ mr_result = "True"
    /\ ret' = prime_candidate
    /\ gp_pc' = "returned"
    /\ UNCHANGED <<l, prime_candidate, trial, mr_result>>
    /\ UNCHANGED main_vars
    /\ UNCHANGED jacobi_vars

(***************************************************************************)
(* generate_pseudo_square(n, p, q), src/main.py lines 59-66.               *)
(***************************************************************************)
\* line 65 for one drawn a: jacobi(a, p) == jacobi(a, q) == -1 and
\* jacobi(a, n) == 1, evaluated left to right with Python's short circuit.
\* Yields the exception raised, or "accept", or "reject".
pseudo_square_test(a, nn, pp, qq) ==
    LET r1 == jacobi(a, pp)
        r2 == jacobi(a, qq)
        r3 == jacobi(a, nn)
    IN  IF r1.exc # "" THEN r1.exc
        ELSE IF r2.exc # "" THEN r2.exc
        ELSE IF r1.value # r2.value THEN "reject"
        ELSE IF r2.value # -1 THEN "reject"
        ELSE IF r3.exc # "" THEN r3.exc
        ELSE IF r3.value = 1 THEN "accept"
        ELSE "reject"

\* lines 63-66: one round of the while loop with a drawn a; a rejected a
\* leaves the state as it is and the loop draws again
generate_pseudo_square(nn, pp, qq, next_pc) ==
    \E a \in 2 .. (nn - 1) :
        LET o == pseudo_square_test(a, nn, pp, qq)
        IN  IF o = "accept" THEN z' = a /\ pc' = next_pc /\ err' = err
            ELSE IF o = "reject" THEN z' = z /\ pc' = pc /\ err' = err
            ELSE z' = z /\ pc' = "error" /\ err' = o

(***************************************************************************)
(* The script, src/main.py lines 127-161.                                  *)
(***************************************************************************)
\* lines 130, 131: the call get_prime(prime_len)
CallGetPrime ==
    /\ pc \in {"gen_p", "gen_q"}
    /\ gp_pc = "idle"
    /\ l' = prime_len
    /\ gp_pc' = "sieve"
    /\ UNCHANGED <<prime_candidate, trial, mr_result, ret>>
    /\ UNCHANGED main_vars
    /\ UNCHANGED jacobi_vars

\* line 130: p = get_prime(prime_len)
AssignP ==
    /\ pc = "gen_p"
    /\ gp_pc = "returned"
    /\ p' = ret
    /\ pc' = "gen_q"
    /\ gp_pc' = "idle"
    /\ UNCHANGED <<prime_len, q, n, z, binary_text, rand_a_Zn, encrypted_text,
                   di, decrypted_text, err>>
    /\ UNCHANGED <<l, prime_candidate, trial, mr_result, ret>>
    /\ UNCHANGED jacobi_vars

\* lines 131-133: q = get_prime(prime_len); n = p * q
AssignQ ==
    /\ pc = "gen_q"
    /\ gp_pc = "returned"
    /\ q' = ret
    /\ n' = p * ret
    /\ pc' = "gen_z"
    /\ gp_pc' = "idle"
    /\ UNCHANGED <<prime_len, p, z, binary_text, rand_a_Zn, encrypted_text,
                   di, decrypted_text, err>>
    /\ UNCHANGED <<l, prime_candidate, trial, mr_result, ret>>
    /\ UNCHANGED jacobi_vars

\* line 135: z = generate_pseudo_square(1357, 23, 59)
SampleZ ==
    /\ pc = "gen_z"
    /\ generate_pseudo_square(1357, 23, 59, "encrypt")
    /\ UNCHANGED <<prime_len, p, q, n, binary_text, rand_a_Zn, encrypted_text,
                   di, decrypted_text>>
    /\ UNCHANGED prime_vars
    /\ UNCHANGED jacobi_vars

\* lines 143-151: one round of the encryption loop, with a drawn
\* random.randint(1, n)
EncryptBit ==
    /\ pc = "encrypt"
    /\ LET k == Len(encrypted_text) + 1
           xi == binary_text[k]
           bin_z == int_base2(bin(z))
           bin_xi == int_char(xi)
       IN  \E a \in 1 .. n :
             LET rand == int_base2(bin(a * a))
                 yi == (Pow(bin_z, bin_xi) * rand) % n
             IN  /\ rand_a_Zn' = rand
                 /\ encrypted_text' = Append(encrypted_text, yi)
                 /\ pc' = IF k = Len(binary_text) THEN "decrypt" ELSE "encrypt"
    /\ UNCHANGED <<prime_len, p, q, n, z, binary_text, di, decrypted_text, err>>
    /\ UNCHANGED prime_vars
    /\ UNCHANGED jacobi_vars

\* lines 156-160: one round of the decryption loop
DecryptResidue ==
    /\ pc = "decrypt"
    /\ LET i == encrypted_text[di + 1]
           r == jacobi(i, p)
       IN  IF r.exc # ""
           THEN /\ pc' = "error"
                /\ err' = r.exc
                /\ UNCHANGED <<di, decrypted_text>>
           ELSE /\ decrypted_text' =
                      IF r.value = 1 THEN Append(decrypted_text, "0")
                      ELSE IF r.value = -1 THEN Append(decrypted_text, "1")
                      ELSE decrypted_text
                /\ di' = di + 1
                /\ pc' = IF di + 1 = Len(encrypted_text) THEN "done" ELSE "decrypt"
                /\ err' = err
    /\ UNCHANGED <<prime_len, p, q, n, z, binary_text, rand_a_Zn, encrypted_text>>
    /\ UNCHANGED prime_vars
    /\ UNCHANGED jacobi_vars

(***************************************************************************)
(* Specifications.                                                         *)
(***************************************************************************)
BitStrings == UNION {[1 .. k -> {"0", "1"}] : k \in 1 .. MaxBits}

MainIdle ==
    /\ pc = "idle"
    /\ prime_len = PrimeLen
    /\ p = 0 /\ q = 0 /\ n = 0 /\ z = 0
    /\ binary_text = <<>>
    /\ rand_a_Zn = 0
    /\ encrypted_text = <<>>
    /\ di = 0
    /\ decrypted_text = <<>>
    /\ err = ""

PrimeIdle ==
    /\ gp_pc = "idle"
    /\ l = 0
    /\ prime_candidate = 0
    /\ trial = 0
    /\ mr_result = "none"
    /\ ret = 0

JacobiIdle ==
    /\ jpc = "idle"
    /\ ja = 0 /\ jb = 0 /\ jp = 0
    /\ res_a = NotCalled /\ res_b = NotCalled /\ res_ab = NotCalled

\* The script: line 129 has run, the text to encrypt is any bit string.
Init ==
    /\ pc = "gen_p"
    /\ prime_len = PrimeLen
    /\ p = 0 /\ q = 0 /\ n = 0 /\ z = 0
    /\ binary_text \in BitStrings
    /\ rand_a_Zn = 0
    /\ encrypted_text = <<>>
    /\ di = 0
    /\ decrypted_text = <<>>
    /\ err = ""
    /\ PrimeIdle
    /\ JacobiIdle

Next ==
    \/ CallGetPrime
    \/ GetLowlevelPrime
    \/ MillerRabinTrial
    \/ MillerRabinAccept
    \/ GetPrimeRetry
    \/ GetPrimeReturn
    \/ AssignP
    \/ AssignQ
    \/ SampleZ
    \/ EncryptBit
    \/ DecryptResidue

Spec == Init /\ [][Next]_vars

\* Direct calls of jacobi.
InitJacobi ==
    /\ MainIdle
    /\ PrimeIdle
    /\ jpc = "call_a"
    /\ JacobiInputs
    /\ res_a = NotCalled /\ res_b = NotCalled /\ res_ab = NotCalled

NextJacobi ==
    \/ JacobiCallA
    \/ JacobiCallB
    \/ JacobiCallProduct

SpecJacobi == InitJacobi /\ [][NextJacobi]_vars

\* A direct call test_MillerRabin(candidate).
InitMR ==
    /\ MainIdle
    /\ JacobiIdle
    /\ gp_pc = "test"
    /\ l = 0
    /\ prime_candidate \in 3 .. MaxCandidate
    /\ trial = 0
    /\ mr_result = "none"
    /\ ret = 0

NextMR ==
    \/ MillerRabinTrial
    \/ MillerRabinAccept

SpecMR == InitMR /\ [][NextMR]_vars

\* A direct call get_prime(l) while the module variable prime_len holds
\* the value the script gave it.
InitPrime ==
    /\ MainIdle
    /\ JacobiIdle
    /\ gp_pc = "sieve"
    /\ l \in 3 .. MaxLen
    /\ prime_candidate = 0
    /\ trial = 0
    /\ mr_result = "none"
    /\ ret = 0

NextPrime ==
    \/ GetLowlevelPrime
    \/ MillerRabinTrial
    \/ MillerRabinAccept
    \/ GetPrimeRetry
    \/ GetPrimeReturn

SpecPrime == InitPrime /\ [][NextPrime]_vars

\* A direct call generate_pseudo_square(n, p, q) with odd primes p, q and
\* n = p * q.
IsPrime(x) == x >= 2 /\ \A d \in 2 .. (x - 1) : x % d # 0

OddPrimes == {x \in 3 .. MaxSamplerPrime : IsPrime(x)}

InitSampler ==
    /\ pc = "sample"
    /\ prime_len = PrimeLen
    /\ p \in OddPrimes
    /\ q \in OddPrimes
    /\ n = p * q
    /\ z = 0
    /\ binary_text = <<>>
    /\ rand_a_Zn = 0
    /\ encrypted_text = <<>>
    /\ di = 0
    /\ decrypted_text = <<>>
    /\ err = ""
    /\ PrimeIdle
    /\ JacobiIdle

SamplerCall ==
    /\ pc = "sample"
    /\ generate_pseudo_square(n, p, q, "sampled")
    /\ UNCHANGED <<prime_len, p, q, n, binary_text, rand_a_Zn, encrypted_text,
                   di, decrypted_text>>
    /\ UNCHANGED prime_vars
    /\ UNCHANGED jacobi_vars

NextSampler == SamplerCall

SpecSampler == InitSampler /\ [][NextSampler]_vars

(***************************************************************************)
(* Properties.                                                             *)
(***************************************************************************)
RECURSIVE GCD(_, _)
\* greatest common divisor of x >= 0 and y >= 0, by Euclid's algorithm
GCD(x, y) == IF y = 0 THEN x ELSE GCD(y, x % y)

\* the precondition of jacobi the specification states: p odd and 0 < a < p
InContract(a, m) == m > 0 /\ m % 2 = 1 /\ 0 < a /\ a < m

\* C4: for every odd p and every a with 0 < a < p, jacobi(a, p) returns a
\* value in {-1, 0, 1}, and the value is 0 exactly when gcd(a, p) > 1.
C4_JacobiRangeAndZero ==
    (jpc # "call_a" /\ InContract(ja, jp)) =>
        /\ res_a.exc = ""
        /\ res_a.value \in {-1, 0, 1}
        /\ (res_a.value = 0 <=> GCD(ja, jp) > 1)

\* a call within the contract whose argument shares a factor with a
\* composite modulus has returned 0
C4_Witness ==
    /\ jpc = "done"
    /\ jp = 15 /\ ja = 6
    /\ res_a = Returned(0)

\* C5 as stated: for every odd p and all a, b with 0 < a < p and 0 < b < p,
\* jacobi(a*b mod p, p) returns a value, and the value is
\* jacobi(a, p) * jacobi(b, p), also when a*b mod p is 0.
C5_Original ==
    (jpc = "done" /\ InContract(ja, jp) /\ InContract(jb, jp)) =>
        /\ res_ab.exc = ""
        /\ res_ab.value = res_a.value * res_b.value

\* C5 as amended: for every odd p and all a, b with 0 < a < p and 0 < b < p,
\* when a*b mod p is not 0 jacobi(a*b mod p, p) returns
\* jacobi(a, p) * jacobi(b, p); when a*b mod p is 0 the call raises
\* AssertionError and returns nothing.
C5_Multiplicative ==
    (jpc = "done" /\ InContract(ja, jp) /\ InContract(jb, jp)) =>
        IF (ja * jb) % jp = 0
        THEN res_ab.exc = "AssertionError"
        ELSE /\ res_ab.exc = ""
             /\ res_ab.value = res_a.value * res_b.value

\* two non-residues whose product has been given the symbol +1
C5_Witness ==
    /\ jpc = "done"
    /\ InContract(ja, jp) /\ InContract(jb, jp)
    /\ res_a = Returned(-1)
    /\ res_b = Returned(-1)
    /\ res_ab = Returned(1)

\* C10 as stated: jacobi raises on an even modulus and on an argument
\* outside 0 < a < p (zero, negative, or >= p), and never raises when
\* p is odd and 0 < a < p.
C10_Original ==
    jpc # "call_a" => (res_a.exc # "" <=> ~InContract(ja, jp))

\* C10 as amended: jacobi reduces a modulo p before it asserts, so it
\* raises exactly when p <= 0, p is even, or a is a multiple of p; any
\* other a, negative or >= p included, gets the symbol of a mod p, and a
\* call with p odd and 0 < a < p never raises.
C10_FailFast ==
    jpc # "call_a" =>
        /\ res_a.exc # "" <=>
              (IF jp <= 0 \/ jp % 2 = 0 THEN TRUE ELSE ja % jp = 0)
        /\ res_a.exc = "" =>
              /\ res_a.value \in {-1, 0, 1}
              /\ (res_a.value = 0 <=> GCD(ja % jp, jp) > 1)
        /\ InContract(ja, jp) => res_a.exc = ""

\* a negative argument has been reduced and given a symbol
C10_Witness ==
    /\ jpc = "done"
    /\ ja < 0
    /\ jp = 7
    /\ res_a = Returned(-1)

\* C7: for a prime candidate >= 3, is_composite(round_tester) is false for
\* every round_tester in [2, candidate), no trial ends the test with
\* False, and the test returns True.
C7_NoFalseComposite ==
    (gp_pc = "test" /\ IsPrime(prime_candidate)) =>
        /\ mr_result # "False"
        /\ \A w \in 2 .. (prime_candidate - 1) : ~is_composite(w, prime_candidate)

\* a prime candidate has passed all the trials and the test returned True
C7_Witness ==
    /\ gp_pc = "test"
    /\ IsPrime(prime_candidate)
    /\ prime_candidate > 16
    /\ trial = number_trials
    /\ mr_result = "True"

\* C6: the value get_prime(l) returns is odd and lies in [2^(l-1), 2^l).
C6_PrimeSize ==
    gp_pc = "returned" =>
        /\ ret % 2 = 1
        /\ Pow(2, l - 1) <= ret
        /\ ret < Pow(2, l)

\* C8: for odd primes p, q and n = p*q, generate_pseudo_square(n, p, q)
\* never fails on a drawn candidate, what it returns lies in [2, n) with
\* jacobi(z, p) = jacobi(z, q) = -1 and jacobi(z, n) = 1, and no candidate
\* of [2, n) that passes both -1 tests fails the test against n.
C8_Sampler ==
    pc \in {"sample", "sampled", "error"} =>
        /\ pc # "error"
        /\ pc = "sampled" =>
              /\ 2 <= z /\ z < n
              /\ jacobi(z, p) = Returned(-1)
              /\ jacobi(z, q) = Returned(-1)
              /\ jacobi(z, n) = Returned(1)
        /\ \A a \in 2 .. (n - 1) :
              (jacobi(a, p) = Returned(-1) /\ jacobi(a, q) = Returned(-1))
                  => jacobi(a, n) = Returned(1)

\* C2: once the key is generated, n = p*q, z lies in [2, n) and
\* jacobi(z, p) = jacobi(z, q) = -1, jacobi(z, n) = 1 for the p, q, n of
\* the key.
C2_KeyConsistent ==
    pc \in {"encrypt", "decrypt", "done"} =>
        /\ n = p * q
        /\ 2 <= z /\ z < n
        /\ jacobi(z, p) = Returned(-1)
        /\ jacobi(z, q) = Returned(-1)
        /\ jacobi(z, n) = Returned(1)

\* C9: every bit is encrypted with a mask a, 1 <= a < n, as
\* z^x * a^2 mod n; there is one residue per bit encrypted so far, all of
\* them in [0, n).
C9_Encryption ==
    LET k == Len(encrypted_text)
    IN  (pc \in {"encrypt", "decrypt", "done"} /\ k > 0) =>
            /\ \E a \in 1 .. (n - 1) :
                  /\ rand_a_Zn = a * a
                  /\ encrypted_text[k] =
                        (Pow(z, int_char(binary_text[k])) * (a * a)) % n
            /\ \A j \in 1 .. k : encrypted_text[j] \in 0 .. (n - 1)
            /\ k <= Len(binary_text)
            /\ pc \in {"decrypt", "done"} => k = Len(binary_text)

\* C3: decryption fails with an error or produces one bit per residue, in
\* order, "0" for the symbol +1 and "1" for -1; no residue is passed over.
C3_DecryptNoSkip ==
    pc \in {"decrypt", "done"} =>
        /\ Len(decrypted_text) = di
        /\ \A j \in 1 .. Len(decrypted_text) :
              decrypted_text[j] =
                  (IF jacobi(encrypted_text[j], p) = Returned(1) THEN "0" ELSE "1")
        /\ pc = "done" => Len(decrypted_text) = Len(encrypted_text)

\* C1: decrypting what was encrypted gives back the bit string, whatever
\* masks were drawn: decryption neither fails nor ends with another text.
C1_RoundTrip ==
    /\ pc = "done" => decrypted_text = binary_text
    /\ ~(pc = "error" /\ encrypted_text # <<>>)

====
